---- MODULE Spec2Model ----
(***************************************************************************)
(* Model of the light-starter project generator.  The repository holds     *)
(* three variants of the same procedure:                                   *)
(*   "cli"      src/cli.js            resolves versions, seven files       *)
(*   "part_000" src/unnamed/part_000  resolves versions, installs          *)
(*   "part_001" src/unnamed/part_001  static manifest                      *)
(* A behaviour runs one variant: the operator answers the three prompts,   *)
(* createProject runs step by step (every await is a step that may fail),  *)
(* and the same request may be materialized a second time.                 *)
(*                                                                         *)
(* Strings whose whitespace matters (process output, version strings) are  *)
(* sequences of tokens: a token is " ", "\n" or a run of non-whitespace    *)
(* characters.  The empty string is <<>>.                                  *)
(***************************************************************************)
EXTENDS Integers, Sequences, FiniteSets, TLC

VARIABLES
    variant,         \* which of the three programs is running
    pc,              \* position of the run / createProject
    project_name,    \* answers.project_name
    packageManager,  \* answers.packageManager
    framework,       \* answers.framework
    dirs,            \* directories that exist under the destination
    files,           \* path -> content (Absent when there is no file)
    mode,            \* path -> permission bits
    written,         \* paths written by the current createProject call, in order
    latestVersions,  \* the versions object built by fetchLatestVersions
    idx,             \* number of packages whose query has completed
    inflight,        \* the version queries that are running
    queryLog,        \* the commands exec() ran for the current call, in order
    oddUsed,         \* abnormal query outcomes so far
    console,         \* messages printed
    ipc,             \* position of the install / outdated / update chain
    execLog,         \* commands run by the chain, in order
    outdatedStdout,  \* standard output of `<mgr> outdated`
    run,             \* number of the createProject call (1 or 2)
    firstRun         \* files and versions as the first call left them

vars == <<variant, pc, project_name, packageManager, framework, dirs, files,
          mode, written, latestVersions, idx, inflight, queryLog, oddUsed,
          console, ipc, execLog, outdatedStdout, run, firstRun>>

-----------------------------------------------------------------------------
(* Bounds of the environment.                                              *)

\* at most this many version queries end abnormally (error or blank output)
MaxOddOutcomes == 1

\* longest `<mgr> outdated` output, in tokens
MaxOutLen == 2

-----------------------------------------------------------------------------
(* Strings.                                                                *)

WS == {" ", "\n"}

RECURSIVE TrimStart(_)
TrimStart(s) ==
    IF s # <<>> /\ Head(s) \in WS THEN TrimStart(Tail(s)) ELSE s

RECURSIVE TrimEnd(_)
TrimEnd(s) ==
    IF s # <<>> /\ s[Len(s)] \in WS THEN TrimEnd(SubSeq(s, 1, Len(s) - 1)) ELSE s

\* String.prototype.trim
Trim(s) == TrimEnd(TrimStart(s))

\* s.split("\n"): the pieces between the newline tokens (always at least one)
RECURSIVE SplitLines(_)
SplitLines(s) ==
    IF \E i \in 1..Len(s) : s[i] = "\n"
    THEN LET i == CHOOSE j \in 1..Len(s) :
                      s[j] = "\n" /\ \A k \in 1..(j - 1) : s[k] # "\n"
         IN  <<SubSeq(s, 1, i - 1)>> \o SplitLines(SubSeq(s, i + 1, Len(s)))
    ELSE <<s>>

\* s.split(/\s+/): the fields between runs of whitespace, each field the
\* tokens it is made of; [""] for the empty string
RECURSIVE SplitWs(_)
SplitWs(s) ==
    IF \E i \in 1..Len(s) : s[i] \in WS
    THEN LET i == CHOOSE j \in 1..Len(s) :
                      s[j] \in WS /\ \A k \in 1..(j - 1) : s[k] \notin WS
             rest == TrimStart(SubSeq(s, i, Len(s)))
         IN  <<SubSeq(s, 1, i - 1)>> \o SplitWs(rest)
    ELSE <<s>>

\* all strings of at most n tokens over the alphabet A
StringsUpTo(A, n) == UNION {[1..k -> A] : k \in 0..n}

-----------------------------------------------------------------------------
(* The prompt.                                                             *)

Variants == {"cli", "part_000", "part_001"}

\* what the operator may type for the project name
NameInputs == {<<>>, <<" ">>, <<"demo">>}

PackageManagers == {"npm", "yarn", "pnpm"}

\* a framework list with a choice createProject has no branch for
FrameworksWithKoa == {"express", "fastify", "koa"}

Frameworks == {"express", "fastify"}

\* a validate that does not trim before comparing
validateNoTrim(input) ==
    IF input = <<>> THEN "Please enter a project name." ELSE "true"

\* the validate callback of the project_name question
validate(input) ==
    IF Trim(input) = <<>> THEN "Please enter a project name." ELSE "true"

-----------------------------------------------------------------------------
(* Generated content.  A file's content is a record; its fields are the     *)
(* parts of the text that depend on the request.                           *)

Absent == [kind |-> "absent"]

\* what a failed write may leave behind: the file opened and truncated
Partial == [kind |-> "partial"]

Undefined == [kind |-> "undefined"]

\* let serverConfig; if (framework === "express") ... else if ("fastify") ...
serverConfig(fw) ==
    IF fw = "express"
    THEN [kind |-> "server", imports |-> {"express"}, route |-> "/",
          port |-> 3000, listen |-> "callback"]
    ELSE IF fw = "fastify"
    THEN [kind |-> "server", imports |-> {"fastify"}, route |-> "/test",
          port |-> 3000, listen |-> "promise"]
    ELSE Undefined

testServerConfig == [kind |-> "test stub"]

\* `${packageManager} lint-staged`
huskyHookConfig(mgr) == [kind |-> "hook", runs |-> <<mgr, "lint-staged">>]

eslintConfig == [kind |-> "eslint"]

prettierConfig == [kind |-> "prettier"]

tsconfigConfig == [kind |-> "tsconfig"]

\* the test stub's name differs between the variants
testServerFilePath(v) ==
    IF v = "cli" THEN "src/server.test.ts" ELSE "src/test.server.ts"

huskyHookFilePath == ".husky/pre-commit"

packageJsonPath == "package.json"

Paths == {"package.json", ".eslintrc.json", ".prettierrc.json", "tsconfig.json",
          ".husky/pre-commit", "src/server.ts", "src/server.test.ts",
          "src/test.server.ts"}

\* the directory a path lies in ("." is the destination directory)
Parent(p) ==
    IF p \in {"src/server.ts", "src/server.test.ts", "src/test.server.ts"} THEN "src"
    ELSE IF p = ".husky/pre-commit" THEN ".husky"
    ELSE "."

-----------------------------------------------------------------------------
(* Dependencies and the manifest.                                          *)

\* a pinned version constraint is one token
Pin(str) == <<str>>

\* const dependencies = {...}; if (framework === ...) add the framework's entries
dependencies(v, fw) ==
    IF v = "cli"
    THEN ("zod" :> Pin("^3.22.4") @@ "eslint-config-prettier" :> Pin("^9.1.0"))
         @@ (IF fw = "express"
             THEN "@types/express" :> Pin("^4.17.21") @@ "express" :> Pin("^4.19.2")
             ELSE IF fw = "fastify"
             THEN "@fastify/cors" :> Pin("^9.0.1")
                  @@ "@fastify/swagger" :> Pin("^8.14.0")
                  @@ "@fastify/swagger-ui" :> Pin("^3.0.0")
                  @@ "fastify-type-provider-zod" :> Pin("^1.1.9")
                  @@ "fastify" :> Pin("^4.26.2")
             ELSE <<>>)
    ELSE ("@typescript-eslint/eslint-plugin" :> Pin("7.7.0")
          @@ "@typescript-eslint/parser" :> Pin("7.7.0")
          @@ "eslint" :> Pin("9.0.0")
          @@ "eslint-config-prettier" :> Pin("9.1.0")
          @@ "husky" :> Pin("9.0.11")
          @@ "lint-staged" :> Pin("15.2.2")
          @@ "prettier" :> Pin("3.2.5")
          @@ "tsup" :> Pin("8.0.2")
          @@ "tsx" :> Pin("4.7.2")
          @@ "typescript" :> Pin("5.4.5")
          @@ "vitest" :> Pin("1.5.0"))
         @@ (IF fw = "express"
             THEN "@types/express" :> Pin("^4.17.21") @@ "express" :> Pin("^4.19.2")
             ELSE IF fw = "fastify"
             THEN "fastify" :> Pin("^4.26.2")
             ELSE <<>>)

\* const devDependencies = {...}; in part_001 the literal inside packageJson
devDependencies(v) ==
    IF v = "cli"
    THEN "@types/node" :> Pin("^20.10.5")
         @@ "tsup" :> Pin("^8.0.2")
         @@ "tsx" :> Pin("^4.7.2")
         @@ "typescript" :> Pin("^5.4.5")
         @@ "@eslint/js" :> Pin("^9.0.0")
         @@ "eslint-config-prettier" :> Pin("^9.1.0")
         @@ "eslint" :> Pin("^9.0.0")
         @@ "@typescript-eslint/parser" :> Pin("^7.7.0")
         @@ "@typescript-eslint/eslint-plugin" :> Pin("^7.7.0")
         @@ "prettier" :> Pin("^3.2.5")
         @@ "typescript-eslint" :> Pin("^7.5.0")
         @@ "globals" :> Pin("^15.0.0")
         @@ "vitest" :> Pin("^1.5.0")
         @@ "husky" :> Pin("^9.0.11")
         @@ "lint-staged" :> Pin("^15.2.2")
    ELSE IF v = "part_000"
    THEN "@types/node" :> Pin("^20.10.5")
    ELSE "@types/express" :> Pin("^4.17.21")
         @@ "@types/node" :> Pin("^20.10.5")
         @@ "@typescript-eslint/eslint-plugin" :> Pin("^6.15.0")
         @@ "@typescript-eslint/parser" :> Pin("^6.15.0")
         @@ "eslint" :> Pin("^8.56.0")
         @@ "eslint-config-prettier" :> Pin("^9.1.0")
         @@ "express" :> Pin("^4.18.2")
         @@ "husky" :> Pin("^8.0.3")
         @@ "lint-staged" :> Pin("^15.2.0")
         @@ "prettier" :> Pin("^3.1.1")
         @@ "tsup" :> Pin("^8.0.1")
         @@ "tsx" :> Pin("^4.7.0")
         @@ "typescript" :> Pin("^5.3.3")
         @@ "vitest" :> Pin("^1.1.0")

\* the list without the framework-specific push
packagesToCheckNoPush(v, fw) ==
    IF v = "cli"
    THEN <<"zod", "eslint-config-prettier", "prettier", "@types/node", "tsup",
           "tsx", "typescript", "@eslint/js", "eslint-config-prettier", "eslint",
           "@typescript-eslint/parser", "@typescript-eslint/eslint-plugin",
           "prettier", "typescript-eslint", "globals", "vitest", "husky",
           "lint-staged">>
    ELSE IF v = "part_000"
    THEN <<"@typescript-eslint/eslint-plugin", "@typescript-eslint/parser",
           "eslint", "eslint-config-prettier", "husky", "lint-staged", "prettier",
           "tsup", "tsx", "typescript", "vitest", "@types/node">>
    ELSE <<>>

\* const packagesToCheck = [...]; packagesToCheck.push(...)
packagesToCheck(v, fw) ==
    IF v = "cli"
    THEN <<"zod", "eslint-config-prettier", "prettier", "@types/node", "tsup",
           "tsx", "typescript", "@eslint/js", "eslint-config-prettier", "eslint",
           "@typescript-eslint/parser", "@typescript-eslint/eslint-plugin",
           "prettier", "typescript-eslint", "globals", "vitest", "husky",
           "lint-staged">>
         \o (IF fw = "express" THEN <<"express", "@types/express">>
             ELSE IF fw = "fastify"
             THEN <<"fastify", "@fastify/cors", "@fastify/swagger",
                    "@fastify/swagger-ui", "fastify-type-provider-zod">>
             ELSE <<>>)
    ELSE IF v = "part_000"
    THEN <<"@typescript-eslint/eslint-plugin", "@typescript-eslint/parser",
           "eslint", "eslint-config-prettier", "husky", "lint-staged", "prettier",
           "tsup", "tsx", "typescript", "vitest", "@types/node">>
         \o (IF fw = "express" THEN <<"express", "@types/express">>
             ELSE IF fw = "fastify" THEN <<"fastify">>
             ELSE <<>>)
    ELSE <<>>

\* the variants that call fetchLatestVersions
ResolvesVersions(v) == v \in {"cli", "part_000"}

\* the variant that runs install / outdated / update
Installs(v) == v = "part_000"

\* the command getLatestVersion hands to exec()
getLatestVersionCommand(v, packageName, mgr) ==
    IF v = "cli" THEN <<"npm", "show", packageName, "version">>
    ELSE <<mgr, "show", packageName, "version">>

\* a fallback that only covers a missing key (?? in place of ||)
ResolvedOrPinnedNullish(latest, pinned, key) ==
    IF key \in DOMAIN latest THEN latest[key] ELSE pinned[key]

\* latestVersions[key] || pinned[key]
ResolvedOrPinned(latest, pinned, key) ==
    IF key \in DOMAIN latest /\ latest[key] # <<>> THEN latest[key] ELSE pinned[key]

\* Object.fromEntries(Object.keys(pinned).map((key) => [key, latest[key] || pinned[key]]))
ManifestMap(latest, pinned) ==
    [key \in DOMAIN pinned |-> ResolvedOrPinned(latest, pinned, key)]

\* const packageJson = {...}
packageJson(v, name, mgr, fw, latest) ==
    IF v = "part_001"
    THEN [kind |-> "manifest", name |-> name, version |-> "1.0.0",
          huskyPrepare |-> <<mgr, "install">>, lintStaged |-> mgr,
          devDependencies |-> devDependencies(v)]
    ELSE [kind |-> "manifest", name |-> name, version |-> "1.0.0",
          huskyPrepare |-> <<"npx", "husky", "init">>, lintStaged |-> mgr,
          dependencies |-> ManifestMap(latest, dependencies(v, fw)),
          devDependencies |-> ManifestMap(latest, devDependencies(v))]

-----------------------------------------------------------------------------
(* Initial state: an empty destination, the first question pending.        *)

NoVersions == <<>>

Init ==
    /\ variant \in Variants
    /\ pc = "ask_name"
    /\ project_name = <<>>
    /\ packageManager = ""
    /\ framework = ""
    /\ dirs = {}
    /\ files = [p \in Paths |-> Absent]
    /\ mode = [p \in Paths |-> "-"]
    /\ written = <<>>
    /\ latestVersions = NoVersions
    /\ idx = 0
    /\ inflight = {}
    /\ queryLog = <<>>
    /\ oddUsed = 0
    /\ console = {}
    /\ ipc = "idle"
    /\ execLog = <<>>
    /\ outdatedStdout = <<>>
    /\ run = 1
    /\ firstRun = [files |-> [p \in Paths |-> Absent], latestVersions |-> NoVersions]

promptVars == <<project_name, packageManager, framework>>
diskVars == <<dirs, files, mode, written>>
fetchVars == <<latestVersions, idx, inflight, queryLog, oddUsed>>
chainVars == <<ipc, execLog, outdatedStdout>>
runVars == <<variant, run, firstRun>>

-----------------------------------------------------------------------------
(* run / program.action: the three questions.                              *)

\* the operator types a project name; an invalid one is asked for again
PromptName ==
    /\ pc = "ask_name"
    /\ \E input \in NameInputs :
          IF validate(input) = "true"
          THEN /\ project_name' = input
               /\ pc' = "ask_pm"
               /\ console' = console
          ELSE /\ console' = console \cup {<<validate(input)>>}
               /\ UNCHANGED <<project_name, pc>>
    /\ UNCHANGED <<packageManager, framework, diskVars, fetchVars, chainVars, runVars>>

PromptPackageManager ==
    /\ pc = "ask_pm"
    /\ \E choice \in PackageManagers : packageManager' = choice
    /\ pc' = "ask_fw"
    /\ UNCHANGED <<project_name, framework, console, diskVars, fetchVars, chainVars,
                   runVars>>

\* the last answer resolves the prompt and createProject is called
\* (cli.js passes answers.x || cli.flags.x: every answer the prompt can give
\* is a non-empty string, so the right operand is never evaluated)
PromptFramework ==
    /\ pc = "ask_fw"
    /\ \E choice \in Frameworks : framework' = choice
    /\ pc' = "ensure_dest"
    /\ UNCHANGED <<project_name, packageManager, console, diskVars, fetchVars,
                   chainVars, runVars>>

\* the operator aborts the prompt: the promise never resolves
Abort ==
    /\ pc \in {"ask_name", "ask_pm", "ask_fw"}
    /\ pc' = "aborted"
    /\ UNCHANGED <<promptVars, console, diskVars, fetchVars, chainVars, runVars>>

-----------------------------------------------------------------------------
(* File-system primitives.  A failing call rejects createProject's promise: *)
(* the rest of the function never runs.                                    *)

\* await fs.ensureDir(dir)
ensureDir(dir, next) ==
    \/ /\ dirs' = dirs \cup {dir}
       /\ pc' = next
       /\ UNCHANGED <<files, mode, written>>
    \/ /\ pc' = "failed"
       /\ UNCHANGED <<dirs, files, mode, written>>

\* a write that does not replace a file that exists (flag "wx")
writeFileKeepExisting(path, content, next) ==
    \/ /\ Parent(path) \in dirs
       /\ files' = [files EXCEPT ![path] = IF @ = Absent THEN content ELSE @]
       /\ mode' = [mode EXCEPT ![path] = IF @ = "-" THEN "644" ELSE @]
       /\ written' = Append(written, path)
       /\ pc' = next
       /\ UNCHANGED dirs
    \/ /\ pc' = "failed"
       /\ UNCHANGED <<dirs, files, mode, written>>

\* a write whose failure removes what the run wrote before it
writeFileRollback(path, content, next) ==
    \/ /\ Parent(path) \in dirs
       /\ files' = [files EXCEPT ![path] = content]
       /\ mode' = [mode EXCEPT ![path] = IF @ = "-" THEN "644" ELSE @]
       /\ written' = Append(written, path)
       /\ pc' = next
       /\ UNCHANGED dirs
    \/ /\ files' = [p \in Paths |-> Absent]
       /\ mode' = [p \in Paths |-> "-"]
       /\ pc' = "failed"
       /\ UNCHANGED <<dirs, written>>

\* await fs.writeFile(path, content) / fs.writeJson: create or truncate
writeFile(path, content, next) ==
    \/ /\ Parent(path) \in dirs
       /\ files' = [files EXCEPT ![path] = content]
       /\ mode' = [mode EXCEPT ![path] = IF @ = "-" THEN "644" ELSE @]
       /\ written' = Append(written, path)
       /\ pc' = next
       /\ UNCHANGED dirs
    \/ /\ \E left \in {files[path], Partial} :
             /\ left = Partial => Parent(path) \in dirs
             /\ files' = [files EXCEPT ![path] = left]
             /\ mode' = [mode EXCEPT ![path] =
                            IF left = Partial /\ @ = "-" THEN "644" ELSE @]
       /\ pc' = "failed"
       /\ UNCHANGED <<dirs, written>>

\* await fs.chmod(path, "755")
chmod(path, next) ==
    \/ /\ files[path] # Absent
       /\ mode' = [mode EXCEPT ![path] = "755"]
       /\ pc' = next
       /\ UNCHANGED <<dirs, files, written>>
    \/ /\ pc' = "failed"
       /\ UNCHANGED <<dirs, files, mode, written>>

-----------------------------------------------------------------------------
(* createProject, one action per awaited call.                             *)

\* the lint, formatter and compiler configuration skipped in every variant
AfterHuskyDirNoConfigs(v) == "write_hook"

\* where the variants part ways after the .husky directory exists
AfterHuskyDir(v) == IF v = "cli" THEN "write_eslint" ELSE "write_hook"

AfterChmod(v) == IF ResolvesVersions(v) THEN "fetch" ELSE "write_manifest"

\* await fs.ensureDir(destinationDirectory)
EnsureDestDir ==
    /\ pc = "ensure_dest"
    /\ ensureDir(".", "ensure_src")
    /\ UNCHANGED <<promptVars, console, fetchVars, chainVars, runVars>>

\* await fs.ensureDir(srcDirPath)
EnsureSrcDir ==
    /\ pc = "ensure_src"
    /\ ensureDir("src", "write_server")
    /\ UNCHANGED <<promptVars, console, fetchVars, chainVars, runVars>>

\* await fs.writeFile(serverFilePath, serverConfig)
WriteServer ==
    /\ pc = "write_server"
    /\ writeFile("src/server.ts", serverConfig(framework), "write_test")
    /\ UNCHANGED <<promptVars, console, fetchVars, chainVars, runVars>>

\* await fs.writeFile(testServerFilePath, testServerConfig)
WriteTestStub ==
    /\ pc = "write_test"
    /\ writeFile(testServerFilePath(variant), testServerConfig, "ensure_husky")
    /\ UNCHANGED <<promptVars, console, fetchVars, chainVars, runVars>>

\* await fs.ensureDir(huskyDirPath)
EnsureHuskyDir ==
    /\ pc = "ensure_husky"
    /\ ensureDir(".husky", AfterHuskyDir(variant))
    /\ UNCHANGED <<promptVars, console, fetchVars, chainVars, runVars>>

\* await fs.writeFile(eslintFilePath, eslintConfig)
WriteEslint ==
    /\ pc = "write_eslint"
    /\ writeFile(".eslintrc.json", eslintConfig, "write_prettier")
    /\ UNCHANGED <<promptVars, console, fetchVars, chainVars, runVars>>

\* await fs.writeFile(prettierFilePath, prettierConfig)
WritePrettier ==
    /\ pc = "write_prettier"
    /\ writeFile(".prettierrc.json", prettierConfig, "write_tsconfig")
    /\ UNCHANGED <<promptVars, console, fetchVars, chainVars, runVars>>

\* await fs.writeFile(tsconfigFilePath, tsconfigConfig)
WriteTsconfig ==
    /\ pc = "write_tsconfig"
    /\ writeFile("tsconfig.json", tsconfigConfig, "write_hook")
    /\ UNCHANGED <<promptVars, console, fetchVars, chainVars, runVars>>

\* await fs.writeFile(huskyHookFilePath, huskyHookConfig)
WriteHook ==
    /\ pc = "write_hook"
    /\ writeFile(huskyHookFilePath, huskyHookConfig(packageManager), "chmod_hook")
    /\ UNCHANGED <<promptVars, console, fetchVars, chainVars, runVars>>

\* await fs.chmod(huskyHookFilePath, "755"); in the resolving variants
\* fetchLatestVersions is entered next (const versions = {})
ChmodHook ==
    /\ pc = "chmod_hook"
    /\ chmod(huskyHookFilePath, AfterChmod(variant))
    /\ console' = IF pc' = "fetch" /\ variant = "cli"
                  THEN console \cup {<<"Fetching Latest version of packages...">>}
                  ELSE console
    /\ UNCHANGED <<promptVars, fetchVars, chainVars, runVars>>

-----------------------------------------------------------------------------
(* fetchLatestVersions / getLatestVersion.                                 *)

\* what a version query may print on success
VersionStdouts == {<<"9.9.9", "\n">>, <<"\n">>, <<>>}

\* exec's callback arguments: an error, or the standard output
QueryOutcomes ==
    {[error |-> TRUE, stdout |-> <<>>]}
        \cup {[error |-> FALSE, stdout |-> o] : o \in VersionStdouts}

\* an outcome other than a version on standard output
Odd(outcome) == outcome.error \/ Trim(outcome.stdout) = <<>>

\* the loop without the await: the next query starts at once
previousQueryDoneNoAwait == TRUE

\* const latestVersion = await getLatestVersion(...): the loop body does not
\* go on to the next package while a query is running
previousQueryDone == inflight = {}

\* for (const packageName of packages): getLatestVersion calls exec
StartQuery ==
    /\ pc = "fetch"
    /\ previousQueryDone
    /\ idx < Len(packagesToCheck(variant, framework))
    /\ LET packageName == packagesToCheck(variant, framework)[idx + 1]
           command == getLatestVersionCommand(variant, packageName, packageManager)
       IN  /\ inflight' = inflight \cup {command}
           /\ queryLog' = Append(queryLog, command)
    /\ UNCHANGED <<pc, promptVars, console, diskVars, latestVersions, idx, oddUsed,
                   chainVars, runVars>>

\* exec's callback: resolve(stdout.trim()) or reject(error), caught by the loop;
\* after the last package the loop ends and versions is returned
CompleteQuery ==
    /\ pc = "fetch"
    /\ inflight # {}
    /\ \E outcome \in QueryOutcomes :
          LET packageName == packagesToCheck(variant, framework)[idx + 1]
          IN  /\ Odd(outcome) => oddUsed < MaxOddOutcomes
              /\ oddUsed' = IF Odd(outcome) THEN oddUsed + 1 ELSE oddUsed
              /\ IF outcome.error
                 THEN /\ console' = console \cup
                            {<<"Error fetching latest version for", packageName>>}
                      /\ latestVersions' = latestVersions
                 ELSE /\ latestVersions' =
                            (packageName :> Trim(outcome.stdout)) @@ latestVersions
                      /\ console' = console
    /\ idx' = idx + 1
    /\ inflight' = {}
    /\ pc' = IF idx' = Len(packagesToCheck(variant, framework))
             THEN "write_manifest" ELSE "fetch"
    /\ UNCHANGED <<promptVars, diskVars, queryLog, chainVars, runVars>>

-----------------------------------------------------------------------------
(* The manifest, and what follows it.                                      *)

created == <<"Project created successfully!">>

\* await fs.writeJson(packageJsonPath, packageJson); then the closing messages
\* and, in the installing variant, exec(`${packageManager} install`)
WriteManifest ==
    /\ pc = "write_manifest"
    /\ writeFile(packageJsonPath,
                 packageJson(variant, project_name, packageManager, framework,
                             latestVersions),
                 "done")
    /\ console' = (IF variant = "cli"
                   THEN console \cup {<<"Generating package.json...">>} ELSE console)
                  \cup (IF pc' = "done" THEN {created} ELSE {})
                  \cup (IF pc' = "done" /\ Installs(variant)
                        THEN {<<"Installing dependencies...">>} ELSE {})
    /\ IF pc' = "done" /\ Installs(variant)
       THEN /\ ipc' = "install"
            /\ execLog' = Append(execLog, <<packageManager, "install">>)
            /\ UNCHANGED outdatedStdout
       ELSE UNCHANGED chainVars
    /\ UNCHANGED <<promptVars, fetchVars, runVars>>

-----------------------------------------------------------------------------
(* The install / outdated / update chain of the installing variant: each   *)
(* action is the callback exec() calls when the command has ended.         *)

\* what `<mgr> outdated` may print: any text of header / table tokens
OutdatedOutputs == StringsUpTo({"\n", " ", "x"}, MaxOutLen)

\* const [packageName, current, wanted, latest, location] = line.trim().split(/\s+/)
parseOutdatedLine(line) ==
    LET fields == SplitWs(Trim(line))
        at(i) == IF i <= Len(fields) THEN fields[i] ELSE Undefined
    IN  [packageName |-> at(1), current |-> at(2), wanted |-> at(3),
         latest |-> at(4), location |-> at(5)]

\* stdout.split("\n").slice(1).map(...)
outdatedPackages(stdout) ==
    LET lines == Tail(SplitLines(stdout))
    IN  [i \in 1..Len(lines) |-> parseOutdatedLine(lines[i])]

\* callback of exec(`${packageManager} install`)
InstallCallback ==
    /\ ipc = "install"
    /\ \E error \in BOOLEAN :
          IF error
          THEN /\ console' = console \cup {<<"Error installing dependencies:">>}
               /\ ipc' = "end"
               /\ execLog' = execLog
          ELSE /\ console' = console \cup
                     {<<"Dependencies installed successfully!">>,
                      <<"Checking for outdated dependencies...">>}
               /\ ipc' = "outdated"
               /\ execLog' = Append(execLog, <<packageManager, "outdated">>)
    /\ UNCHANGED <<pc, promptVars, diskVars, fetchVars, outdatedStdout, runVars>>

\* callback of exec(`${packageManager} outdated`)
OutdatedCallback ==
    /\ ipc = "outdated"
    /\ \/ /\ console' = console \cup {<<"Error checking for outdated dependencies:">>}
          /\ ipc' = "end"
          /\ UNCHANGED <<execLog, outdatedStdout>>
       \/ \E stdout \in OutdatedOutputs :
             /\ outdatedStdout' = stdout
             /\ IF Len(outdatedPackages(stdout)) > 0
                THEN /\ console' = console \cup {<<"Updating outdated dependencies...">>}
                     /\ execLog' = Append(execLog, <<packageManager, "update">>)
                     /\ ipc' = "update"
                ELSE /\ console' = console \cup {<<"All dependencies are up to date.">>}
                     /\ execLog' = execLog
                     /\ ipc' = "end"
    /\ UNCHANGED <<pc, promptVars, diskVars, fetchVars, runVars>>

\* callback of exec(`${packageManager} update`)
UpdateCallback ==
    /\ ipc = "update"
    /\ \E error \in BOOLEAN :
          console' = console \cup
              {IF error THEN <<"Error updating dependencies:">>
               ELSE <<"Dependencies updated successfully!">>}
    /\ ipc' = "end"
    /\ UNCHANGED <<pc, promptVars, diskVars, fetchVars, execLog, outdatedStdout,
                   runVars>>

-----------------------------------------------------------------------------
(* A second run of the tool with the same answers, against the same        *)
(* destination: a new process, the disk as the first run left it.  The     *)
(* first process's install chain writes nothing under the destination and  *)
(* is not followed further.                                                *)

Rerun ==
    /\ pc = "done"
    /\ run = 1
    /\ run' = 2
    /\ firstRun' = [files |-> files, latestVersions |-> latestVersions]
    /\ pc' = "ensure_dest"
    /\ written' = <<>>
    /\ latestVersions' = NoVersions
    /\ idx' = 0
    /\ queryLog' = <<>>
    /\ console' = {}
    /\ ipc' = "idle"
    /\ execLog' = <<>>
    /\ outdatedStdout' = <<>>
    /\ UNCHANGED <<variant, promptVars, dirs, files, mode, inflight, oddUsed>>

-----------------------------------------------------------------------------

\* the prompt and createProject
Generate ==
    \/ PromptName
    \/ PromptPackageManager
    \/ PromptFramework
    \/ Abort
    \/ EnsureDestDir
    \/ EnsureSrcDir
    \/ WriteServer
    \/ WriteTestStub
    \/ EnsureHuskyDir
    \/ WriteEslint
    \/ WritePrettier
    \/ WriteTsconfig
    \/ WriteHook
    \/ ChmodHook
    \/ StartQuery
    \/ CompleteQuery
    \/ WriteManifest

\* one run of the tool
Next ==
    \/ Generate
    \/ InstallCallback
    \/ OutdatedCallback
    \/ UpdateCallback

Spec == Init /\ [][Next]_vars

\* the same request materialized twice
NextTwice ==
    \/ Generate
    \/ Rerun

SpecTwice == Init /\ [][NextTwice]_vars

-----------------------------------------------------------------------------
(* Properties.                                                             *)

\* the manifest on disk once createProject has completed
Manifest == files[packageJsonPath]

\* the dependencies map of a manifest; a manifest without one has no entries
DependenciesOf(m) == IF "dependencies" \in DOMAIN m THEN m.dependencies ELSE <<>>

\* C1: when createProject has completed, the manifest's dependencies and
\* devDependencies hold exactly the declared names, every value is a non-empty
\* version string, and a name that fetchLatestVersions returned no entry for
\* (its query failed, or none was made) has its statically pinned default.
C1_PinnedFallback ==
    pc = "done" =>
        /\ Manifest.kind = "manifest"
        /\ "dependencies" \in DOMAIN Manifest =>
              /\ DOMAIN Manifest.dependencies = DOMAIN dependencies(variant, framework)
              /\ \A k \in DOMAIN Manifest.dependencies :
                    /\ Len(Manifest.dependencies[k]) > 0
                    /\ k \notin DOMAIN latestVersions =>
                          Manifest.dependencies[k] = dependencies(variant, framework)[k]
        /\ DOMAIN Manifest.devDependencies = DOMAIN devDependencies(variant)
        /\ \A k \in DOMAIN Manifest.devDependencies :
              /\ Len(Manifest.devDependencies[k]) > 0
              /\ k \notin DOMAIN latestVersions =>
                    Manifest.devDependencies[k] = devDependencies(variant)[k]

\* the query for typescript failed and the manifest holds its pinned version,
\* while another name was resolved
C1_Witness ==
    /\ pc = "done"
    /\ variant = "cli"
    /\ <<"Error fetching latest version for", "typescript">> \in console
    /\ "typescript" \notin DOMAIN latestVersions
    /\ Manifest.devDependencies["typescript"] = Pin("^5.4.5")
    /\ Manifest.dependencies["zod"] = <<"9.9.9">>

\* the package names of the commands exec() was given, in order
QueriedNames == [i \in 1..Len(queryLog) |-> queryLog[i][3]]

\* C2: the version queries are issued one at a time in the order of the package
\* list (a query is started only when every earlier one has completed), a
\* failed query never ends the run, and when the loop has ended every name of
\* the list has been queried, whatever failed.
C2_SequentialAllQueried ==
    LET list == packagesToCheck(variant, framework)
    IN  /\ Cardinality(inflight) <= 1
        /\ Len(queryLog) = idx + Cardinality(inflight)
        /\ Len(queryLog) <= Len(list)
        /\ QueriedNames = SubSeq(list, 1, Len(queryLog))
        /\ pc = "fetch" => ENABLED (StartQuery \/ CompleteQuery)
        /\ pc = "failed" => idx \in {0, Len(list)}
        /\ pc \in {"write_manifest", "done"} =>
              /\ QueriedNames = list
              /\ inflight = {}

\* the last query of the list failed and the manifest was still written
C2_Witness ==
    /\ pc = "done"
    /\ variant = "part_000"
    /\ framework = "express"
    /\ <<"Error fetching latest version for", "@types/express">> \in console
    /\ Len(queryLog) = 14
    /\ Manifest.kind = "manifest"

\* the paths createProject has written in the current call
WrittenSet == {written[i] : i \in 1..Len(written)}

\* the paths at which a file exists
Existing == {p \in Paths : files[p] # Absent}

ConfigFiles == {".eslintrc.json", ".prettierrc.json", "tsconfig.json"}

CommonFiles == {"package.json", ".husky/pre-commit", "src/server.ts"}

\* C3 as stated: a completed createProject has written exactly the seven files
\* (with either name of the test stub) and the hook is executable.
C3_SevenFilesAlways ==
    pc = "done" =>
        /\ \E stub \in {"src/server.test.ts", "src/test.server.ts"} :
              WrittenSet = CommonFiles \cup ConfigFiles \cup {stub}
        /\ mode[huskyHookFilePath] = "755"

\* C3 amended: a completed createProject has written, once each, exactly the
\* files of its variant and no other file exists under the (initially empty)
\* destination: the seven files with src/server.test.ts in cli.js; in the two
\* other variants the four files package.json, .husky/pre-commit, src/server.ts
\* and src/test.server.ts (no lint, formatter or compiler configuration).  The
\* hook file has mode 755.
C3_FileSetPerVariant ==
    pc = "done" =>
        /\ WrittenSet = IF variant = "cli"
                        THEN CommonFiles \cup ConfigFiles \cup {"src/server.test.ts"}
                        ELSE CommonFiles \cup {"src/test.server.ts"}
        /\ Len(written) = Cardinality(WrittenSet)
        /\ Existing = WrittenSet
        /\ \A p \in WrittenSet : files[p].kind \notin {"absent", "partial", "undefined"}
        /\ mode[huskyHookFilePath] = "755"

\* cli.js has completed with its seven files on disk and the hook executable
C3_Witness ==
    /\ pc = "done"
    /\ variant = "cli"
    /\ Cardinality(Existing) = 7
    /\ files[".eslintrc.json"] = eslintConfig
    /\ mode[huskyHookFilePath] = "755"
    /\ mode["src/server.ts"] = "644"

\* C4 as stated: every version query that is executed is the chosen
\* manager's, `<chosen manager> show <package> version`, and every resolved
\* version is the query's output without surrounding whitespace.
C4_QueryUsesChosenManager ==
    LET list == packagesToCheck(variant, framework)
    IN  /\ \A i \in 1..Len(queryLog) :
              queryLog[i] = <<packageManager, "show", list[i], "version">>
        /\ \A k \in DOMAIN latestVersions : Trim(latestVersions[k]) = latestVersions[k]

\* the packages that belong to one framework only
FrameworkOnly(fw) ==
    IF fw = "express" THEN {"express", "@types/express"}
    ELSE {"fastify", "@fastify/cors", "@fastify/swagger", "@fastify/swagger-ui",
          "fastify-type-provider-zod"}

OtherFramework(fw) == IF fw = "express" THEN "fastify" ELSE "express"

\* C5 as stated: the written manifest's dependencies map contains the chosen
\* framework's package, and neither dependency map contains a package that
\* belongs only to the other framework.
C5_DependenciesMatchFramework ==
    pc = "done" =>
        /\ framework \in DOMAIN DependenciesOf(Manifest)
        /\ (DOMAIN DependenciesOf(Manifest) \cup DOMAIN Manifest.devDependencies)
               \cap FrameworkOnly(OtherFramework(framework)) = {}

\* the order in which a variant writes its files
WriteOrder(v) ==
    IF v = "cli"
    THEN <<"src/server.ts", "src/server.test.ts", ".eslintrc.json",
           ".prettierrc.json", "tsconfig.json", ".husky/pre-commit", "package.json">>
    ELSE <<"src/server.ts", "src/test.server.ts", ".husky/pre-commit", "package.json">>

\* what createProject writes at a path
Intended(p) ==
    IF p = "src/server.ts" THEN serverConfig(framework)
    ELSE IF p \in {"src/server.test.ts", "src/test.server.ts"} THEN testServerConfig
    ELSE IF p = ".eslintrc.json" THEN eslintConfig
    ELSE IF p = ".prettierrc.json" THEN prettierConfig
    ELSE IF p = "tsconfig.json" THEN tsconfigConfig
    ELSE IF p = ".husky/pre-commit" THEN huskyHookConfig(packageManager)
    ELSE packageJson(variant, project_name, packageManager, framework, latestVersions)

\* C6: when a directory creation, a file write or the chmod has failed, no
\* later step of the run is executed: nothing further can happen, the files
\* written are a proper prefix of the variant's write order, the manifest is
\* not written, no version query is issued unless the failing step is the
\* manifest's write (the only file-system step after the queries), no install
\* is started and 'created successfully' is not printed; every file written
\* before the failure is in place with the content it was given (no rollback),
\* and only the path of the failing write may hold a truncated file.
C6_FailureAbortsNoRollback ==
    pc = "failed" =>
        /\ ~ENABLED Next
        /\ Len(written) < Len(WriteOrder(variant))
        /\ written = SubSeq(WriteOrder(variant), 1, Len(written))
        /\ "package.json" \notin WrittenSet
        /\ Manifest.kind # "manifest"
        /\ Len(written) < Len(WriteOrder(variant)) - 1 => queryLog = <<>>
        /\ execLog = <<>> /\ ipc = "idle"
        /\ created \notin console
        /\ \A p \in WrittenSet : files[p] = Intended(p)
        /\ \A p \in Paths \ WrittenSet :
              \/ files[p] = Absent
              \/ files[p] = Partial /\ p = WriteOrder(variant)[Len(written) + 1]

\* the hook's write failed after cli.js had written five files: they are in
\* place, the hook is truncated, no query was made and no manifest written
C6_Witness ==
    /\ pc = "failed"
    /\ variant = "cli"
    /\ Len(written) = 5
    /\ files["tsconfig.json"] = tsconfigConfig
    /\ files[".husky/pre-commit"] = Partial
    /\ files["package.json"] = Absent
    /\ queryLog = <<>>

-----------------------------------------------------------------------------

\* the output of `outdated` lists a package: a line after the header line
\* that is not blank
HasOutdatedEntry(stdout) ==
    LET lines == SplitLines(stdout)
    IN  \E i \in 2..Len(lines) : Trim(lines[i]) # <<>>

OutdatedSucceeded ==
    /\ Len(execLog) >= 2
    /\ ipc \in {"update", "end"}
    /\ <<"Error checking for outdated dependencies:">> \notin console

\* C7 as stated: install is invoked only after the manifest is written,
\* outdated only after install succeeded, update only after outdated succeeded
\* and only if its output lists an outdated package after the header line;
\* when it lists none, update is not invoked and 'All dependencies are up to
\* date.' is reported; the chain never touches the files written.
C7_InstallChain ==
    /\ execLog = SubSeq(<<<<packageManager, "install">>, <<packageManager, "outdated">>,
                          <<packageManager, "update">>>>, 1, Len(execLog))
    /\ Len(execLog) >= 1 => pc = "done" /\ Manifest = Intended("package.json")
    /\ Len(execLog) >= 2 => <<"Dependencies installed successfully!">> \in console
    /\ Len(execLog) = 3 => OutdatedSucceeded /\ HasOutdatedEntry(outdatedStdout)
    /\ OutdatedSucceeded /\ ~HasOutdatedEntry(outdatedStdout) =>
          /\ Len(execLog) = 2
          /\ <<"All dependencies are up to date.">> \in console
    /\ ipc # "idle" => \A p \in WrittenSet : files[p] = Intended(p)

-----------------------------------------------------------------------------

PromptStates == {"ask_name", "ask_pm", "ask_fw", "aborted"}

\* C8: a project name that is empty after trimming is rejected and asked for
\* again: while no name that is non-empty after trimming has been given the
\* package-manager question is not reached; createProject is called, and the
\* disk touched, only with such a name and both choices made; an aborted
\* prompt ends the run with nothing written.
C8_NameValidatedBeforeAnything ==
    /\ pc = "ask_name" => project_name = <<>> /\ packageManager = "" /\ framework = ""
    /\ pc \notin {"ask_name", "aborted"} \/ packageManager # "" =>
          Trim(project_name) # <<>>
    /\ framework # "" => packageManager # ""
    /\ pc \in PromptStates =>
          /\ Existing = {} /\ dirs = {} /\ written = <<>>
          /\ queryLog = <<>> /\ execLog = <<>>
    /\ pc \notin PromptStates =>
          /\ Trim(project_name) # <<>>
          /\ packageManager \in {"npm", "yarn", "pnpm"}
          /\ framework \in {"express", "fastify"}
    /\ pc = "aborted" => ~ENABLED Next

\* an empty name was rejected: the name question is still the pending one
\* and nothing has been written
C8_Witness ==
    /\ pc = "ask_name"
    /\ <<"Please enter a project name.">> \in console
    /\ project_name = <<>>
    /\ packageManager = ""
    /\ Existing = {}

-----------------------------------------------------------------------------

SecondRunDone == run = 2 /\ pc = "done"

\* C9 as stated: after createProject has run twice with the same request,
\* every generated file, package.json included, has the content it had after
\* the first run.
C9_SecondRunSameFiles == SecondRunDone => files = firstRun.files

\* C9 amended: after the second run every generated file other than
\* package.json has the content it had after the first run, and every file,
\* package.json included, holds exactly what the second run wrote to it
\* (nothing accumulated, nothing left over); package.json equals the first
\* run's whenever the version queries resolved the same versions in both runs,
\* which is always so in the variant that resolves no versions.
C9_LastWriteWins ==
    SecondRunDone =>
        /\ \A p \in Paths \ {"package.json"} : files[p] = firstRun.files[p]
        /\ \A p \in WrittenSet : files[p] = Intended(p)
        /\ Existing = WrittenSet
        /\ latestVersions = firstRun.latestVersions => files = firstRun.files
        /\ ~ResolvesVersions(variant) => files = firstRun.files

\* the second run resolved a version the first run had fallen back on: the
\* manifests differ, the other files do not
C9_Witness ==
    /\ SecondRunDone
    /\ variant = "cli"
    /\ firstRun.files["package.json"].dependencies["zod"] = Pin("^3.22.4")
    /\ Manifest.dependencies["zod"] = <<"9.9.9">>
    /\ files["src/server.ts"] = firstRun.files["src/server.ts"]

-----------------------------------------------------------------------------

ServerSource == files["src/server.ts"]

\* C10: the content written to src/server.ts is always defined; it imports
\* the chosen framework and no other, registers that framework's route ('/'
\* for express, '/test' for fastify) and listens on port 3000.
C10_ServerSourceMatchesFramework ==
    /\ "src/server.ts" \in WrittenSet => ServerSource \notin {Absent, Partial}
    /\ ServerSource \notin {Absent, Partial} =>
          /\ ServerSource # Undefined
          /\ ServerSource.kind = "server"
          /\ framework \in {"express", "fastify"}
          /\ ServerSource.imports = {framework}
          /\ ServerSource.route = (IF framework = "express" THEN "/" ELSE "/test")
          /\ ServerSource.port = 3000

\* a fastify project has been generated
C10_Witness ==
    /\ pc = "done"
    /\ framework = "fastify"
    /\ ServerSource.imports = {"fastify"}
    /\ ServerSource.route = "/test"

-----------------------------------------------------------------------------

\* the names declared in the two pinned maps of the running variant
DeclaredNames ==
    DOMAIN dependencies(variant, framework) \cup DOMAIN devDependencies(variant)

\* the names in the list handed to fetchLatestVersions
ListedNames ==
    {packagesToCheck(variant, framework)[i] :
        i \in 1..Len(packagesToCheck(variant, framework))}

\* C11: in the version-resolving variants, once createProject runs, the list
\* handed to the resolver names exactly the declared dependencies; when the
\* loop has ended every declared name has been queried at least once, and in
\* the written manifest every name the resolver returned is a key of one of
\* the two maps, whose value there is the resolved version unless it is blank.
C11_ListCoversDeclared ==
    ResolvesVersions(variant) /\ pc \notin PromptStates =>
        /\ ListedNames = DeclaredNames
        /\ DOMAIN latestVersions \subseteq DeclaredNames
        /\ pc \in {"write_manifest", "done"} =>
              DeclaredNames \subseteq {QueriedNames[i] : i \in 1..Len(QueriedNames)}
        /\ pc = "done" =>
              \A k \in DOMAIN latestVersions :
                 /\ k \in DOMAIN Manifest.dependencies \cup DOMAIN Manifest.devDependencies
                 /\ latestVersions[k] # <<>> =>
                       /\ k \in DOMAIN Manifest.dependencies =>
                             Manifest.dependencies[k] = latestVersions[k]
                       /\ k \in DOMAIN Manifest.devDependencies =>
                             Manifest.devDependencies[k] = latestVersions[k]

\* cli.js with fastify: all 23 queries made, the 21 distinct names resolved,
\* the pushed plugin's version in the manifest
C11_Witness ==
    /\ pc = "done"
    /\ variant = "cli"
    /\ framework = "fastify"
    /\ Len(queryLog) = 23
    /\ DOMAIN latestVersions = DeclaredNames
    /\ Cardinality(DeclaredNames) = 21
    /\ Manifest.dependencies["@fastify/swagger-ui"] = <<"9.9.9">>

====
